---- MODULE Spec2Model ----
(***************************************************************************)
(* Centurion Coffee Connect dashboard (dashboard.py): the transaction       *)
(* table loaded at start-up, the layout built from it, and the three Dash   *)
(* callbacks update_daily_chart, update_product_pie_chart and               *)
(* show_user_purchases.                                                     *)
(*                                                                          *)
(* Dates are day numbers of the year 2024 (1 = 2024-01-01), prices are      *)
(* whole rupees.  An optional Python value is None or Some(v).              *)
(***************************************************************************)
EXTENDS Integers, Sequences, FiniteSets, TLC

VARIABLES
    phase,                  \* "start", "loaded", "serving" or "failed"
    file,                   \* the spreadsheet coffee_shop_purchases.xlsx as found on disk
    purchase_data,          \* the DataFrame: [columns, rows]
    layout,                 \* the figures and the scalar built once into app.layout
    days_dropdown,          \* value of "days-dropdown"
    daily_revenue_chart,    \* figure of "daily-revenue-chart"
    product_days_dropdown,  \* value of "product-days-dropdown"
    product_sales_chart,    \* figure of "product-sales-chart"
    erp_input,              \* value of "erp-input"
    n_clicks,               \* n_clicks of "submit-button"
    enquiry_output,         \* children of "enquiry-output"
    response,               \* the most recent callback invocation and what it returned
    id_at_click,            \* history: value of erp-input at the most recent click
    probe                   \* history: one earlier invocation kept for comparison

vars == <<phase, file, purchase_data, layout, days_dropdown, daily_revenue_chart,
          product_days_dropdown, product_sales_chart, erp_input, n_clicks,
          enquiry_output, response, id_at_click, probe>>

session == <<days_dropdown, daily_revenue_chart, product_days_dropdown,
             product_sales_chart, erp_input, n_clicks, enquiry_output, id_at_click>>

-----------------------------------------------------------------------------
(* Bounds of the model                                                      *)

MaxRows == 2
MaxClicks == 2

-----------------------------------------------------------------------------
(* Python values                                                            *)

None == <<>>
Some(v) == <<v>>

AllColumns == {"Date", "Product", "Price", "ERP"}

\* A cell of the ERP column: an integer cell or a text cell of the sheet.
IntCell(n) == [kind |-> "int", num |-> n, text |-> ""]
StrCell(s) == [kind |-> "str", num |-> 0, text |-> s]

DigitStr(d) ==
    CASE d = 0 -> "0" [] d = 1 -> "1" [] d = 2 -> "2" [] d = 3 -> "3" [] d = 4 -> "4"
      [] d = 5 -> "5" [] d = 6 -> "6" [] d = 7 -> "7" [] d = 8 -> "8" [] d = 9 -> "9"

RECURSIVE IntToStr(_)
IntToStr(n) ==
    IF n < 0 THEN "-" \o IntToStr(0 - n)
    ELSE IF n < 10 THEN DigitStr(n)
    ELSE IntToStr(n \div 10) \o DigitStr(n % 10)

\* purchase_data['ERP'].astype(str), one cell
CellAsStr(c) == IF c.kind = "int" THEN IntToStr(c.num) ELSE c.text

\* Truth value of an optional day count: None and 0 are falsy.
DaysTruthy(d) == d # None /\ d[1] # 0

\* Truth value of an optional string: None and "" are falsy.
StrTruthy(s) == s # None /\ s[1] # ""

-----------------------------------------------------------------------------
(* Components handed to the page                                            *)

Component(kind, title, total, data) ==
    [kind |-> kind, title |-> title, total |-> total, data |-> data]

NoFigure == Component("no_figure", "", 0, <<>>)        \* dcc.Graph without a figure
EmptyFigure == Component("empty_figure", "", 0, <<>>)  \* the {} a callback returns
NoChildren == Component("no_children", "", 0, <<>>)    \* html.Div without children
EmptyString == Component("empty_string", "", 0, <<>>)  \* the "" a callback returns
Raised(exc) == Component("raise", exc, 0, <<>>)        \* the callback raised exc

-----------------------------------------------------------------------------
(* pandas                                                                   *)

RECURSIVE SumPrice(_)
SumPrice(rows) ==
    IF rows = <<>> THEN 0 ELSE Head(rows).Price + SumPrice(Tail(rows))

\* Series.max() of the Date column: None stands for NaT (no rows).
DateMax(rows) ==
    IF rows = <<>> THEN None
    ELSE Some(CHOOSE d \in {rows[i].Date : i \in DOMAIN rows} :
                  \A i \in DOMAIN rows : rows[i].Date <= d)

\* Lexical order of the strings that occur as group keys.
StrRank(s) ==
    CASE s = "2024-01" -> 1 [] s = "2024-02" -> 2 [] s = "2024-03" -> 3
      [] s = "Latte" -> 4 [] s = "Mocha" -> 5

\* Date.dt.to_period("M").astype(str)
MonthLabel(d) ==
    IF d <= 31 THEN "2024-01" ELSE IF d <= 60 THEN "2024-02" ELSE "2024-03"

\* A blank cell of the Product column: read_excel reads it as NaN.
NaN == ""

\* groupby(by) leaves out the rows whose key is NaN (dropna=True, the default).
\* Only a Product can be NaN here: every row has a Date, and a month label is
\* a string.
IsNaKey(k, by) == by = "Product" /\ k = NaN

\* The group key of a row under groupby(by): a column, or the month of Date.
KeyOf(r, by) ==
    CASE by = "Date" -> r.Date
      [] by = "Product" -> r.Product
      [] by = "Month" -> MonthLabel(r.Date)

\* Position of a key in the ascending order groupby sorts its keys into.
KeyRank(k, by) == IF by = "Date" THEN k ELSE StrRank(k)

\* rows.groupby(by)['Price'].sum().reset_index(): one (key, sum) pair per
\* distinct key that is not NaN, in ascending key order; a row whose key is
\* NaN is in no group.
GroupBySum(rows, by) ==
    LET keys == {k \in {KeyOf(rows[i], by) : i \in DOMAIN rows} : ~IsNaKey(k, by)}
        group(k) == SelectSeq(rows, LAMBDA r : KeyOf(r, by) = k)
        RECURSIVE Sorted(_)
        Sorted(S) ==
            IF S = {} THEN <<>>
            ELSE LET m == CHOOSE k \in S : \A j \in S : KeyRank(k, by) <= KeyRank(j, by)
                 IN  <<[key |-> m, Price |-> SumPrice(group(m))]>> \o Sorted(S \ {m})
    IN  Sorted(keys)

\* Variant: the lower bound of the window taken exclusive.
FilterWindowExclusive(rows, days) ==
    LET end_date == DateMax(rows)
    IN  IF end_date = None THEN <<>>
        ELSE LET start_date == end_date[1] - days
             IN  SelectSeq(rows, LAMBDA r : r.Date > start_date /\ r.Date <= end_date[1])

\* purchase_data[(Date >= start_date) & (Date <= end_date)] with
\* end_date = Date.max() and start_date = end_date - Timedelta(days).
\* Every comparison with NaT is False, so an empty table filters to nothing.
FilterWindow(rows, days) ==
    LET end_date == DateMax(rows)
    IN  IF end_date = None THEN <<>>
        ELSE LET start_date == end_date[1] - days
             IN  SelectSeq(rows, LAMBDA r : r.Date >= start_date /\ r.Date <= end_date[1])

\* purchase_data[purchase_data['ERP'].astype(str) == str(erp_id)]
FilterERP(rows, erp_id) ==
    SelectSeq(rows, LAMBDA r : CellAsStr(r.ERP) = erp_id)

-----------------------------------------------------------------------------
(* The three callbacks, as functions of their arguments and purchase_data   *)

\* Variant: the figure of the previous daily request is served again.
update_daily_chart_cached(selected_days) ==
    IF ~DaysTruthy(selected_days) THEN EmptyFigure
    ELSE IF response.callback = "update_daily_chart" /\ response.result.kind = "line"
    THEN response.result
    ELSE Component("line",
                   "Daily Revenue for Last " \o IntToStr(selected_days[1]) \o " Days",
                   0, GroupBySum(FilterWindow(purchase_data.rows, selected_days[1]),
                                 "Date"))

\* def update_daily_chart(selected_days)
update_daily_chart(selected_days) ==
    IF ~DaysTruthy(selected_days) THEN EmptyFigure
    ELSE LET filtered_data == FilterWindow(purchase_data.rows, selected_days[1])
             daily_sales == GroupBySum(filtered_data, "Date")
         IN  Component("line",
                       "Daily Revenue for Last " \o IntToStr(selected_days[1]) \o " Days",
                       0, daily_sales)

\* Variant: 0 is windowed like any other day count.
update_product_pie_chart_no_sentinel(selected_days) ==
    IF selected_days = None THEN Raised("TypeError")
    ELSE Component("pie",
                   IF selected_days = Some(0)
                   THEN "Revenue Distribution for Last All Days"
                   ELSE "Revenue Distribution for Last " \o IntToStr(selected_days[1]) \o " Days",
                   0, GroupBySum(FilterWindow(purchase_data.rows, selected_days[1]),
                                 "Product"))

\* def update_product_pie_chart(selected_days); pd.Timedelta(days=None) raises.
update_product_pie_chart(selected_days) ==
    IF selected_days = Some(0)
    THEN Component("pie", "Revenue Distribution for Last All Days", 0,
                   GroupBySum(purchase_data.rows, "Product"))
    ELSE IF selected_days = None THEN Raised("TypeError")
    ELSE LET filtered_data == FilterWindow(purchase_data.rows, selected_days[1])
         IN  Component("pie",
                       "Revenue Distribution for Last " \o IntToStr(selected_days[1]) \o " Days",
                       0, GroupBySum(filtered_data, "Product"))

\* Variant: "found" decided by a positive total instead of by matching rows.
show_user_purchases_by_total(clicks, erp_id) ==
    IF clicks > 0 /\ StrTruthy(erp_id)
    THEN LET filtered_data == FilterERP(purchase_data.rows, erp_id[1])
         IN  IF SumPrice(filtered_data) > 0
             THEN Component("found", "Total Purchases for ERP " \o erp_id[1],
                            SumPrice(filtered_data),
                            GroupBySum(filtered_data, "Product"))
             ELSE Component("not_found",
                            "No purchases found for ERP " \o erp_id[1] \o ".", 0, <<>>)
    ELSE EmptyString

\* Variant: an empty identifier leaves the output as it is (no update).
show_user_purchases_keep(clicks, erp_id) ==
    IF clicks > 0 /\ StrTruthy(erp_id)
    THEN LET filtered_data == FilterERP(purchase_data.rows, erp_id[1])
         IN  IF filtered_data # <<>>
             THEN Component("found", "Total Purchases for ERP " \o erp_id[1],
                            SumPrice(filtered_data),
                            GroupBySum(filtered_data, "Product"))
             ELSE Component("not_found",
                            "No purchases found for ERP " \o erp_id[1] \o ".", 0, <<>>)
    ELSE enquiry_output

\* def show_user_purchases(n_clicks, erp_id); purchase_data['ERP'] raises
\* KeyError on a table without that column.
show_user_purchases(clicks, erp_id) ==
    IF clicks > 0 /\ StrTruthy(erp_id)
    THEN IF "ERP" \notin purchase_data.columns THEN Raised("KeyError")
         ELSE LET filtered_data == FilterERP(purchase_data.rows, erp_id[1])
              IN  IF filtered_data # <<>>
                  THEN Component("found", "Total Purchases for ERP " \o erp_id[1],
                                 SumPrice(filtered_data),
                                 GroupBySum(filtered_data, "Product"))
                  ELSE Component("not_found",
                                 "No purchases found for ERP " \o erp_id[1] \o ".",
                                 0, <<>>)
    ELSE EmptyString

-----------------------------------------------------------------------------
(* Start-up                                                                 *)

Restrict(row, cols) == [c \in cols |-> row[c]]

NoData == [columns |-> {}, rows |-> <<>>]

NoLayout ==
    [total_revenue |-> 0, product_revenue_chart |-> NoFigure,
     monthly_revenue_chart |-> NoFigure]

LayoutOf(rows) ==
    [total_revenue |-> SumPrice(rows),
     product_revenue_chart |->
         Component("bar", "Revenue by Product", 0, GroupBySum(rows, "Product")),
     monthly_revenue_chart |->
         Component("scatter", "Monthly Revenue Trends", 0,
                   GroupBySum(rows, "Month"))]

NoResponse == [callback |-> "", args |-> <<>>, result |-> NoChildren, age |-> 0]

\* The controls and outputs as the layout declares them.
SessionInit ==
    /\ days_dropdown = Some(7)
    /\ daily_revenue_chart = NoFigure
    /\ product_days_dropdown = Some(0)
    /\ product_sales_chart = NoFigure
    /\ erp_input = None
    /\ n_clicks = 0
    /\ enquiry_output = NoChildren
    /\ id_at_click = None

\* The DataFrame pd.read_excel makes of a sheet: its columns and its rows.
ReadExcel(f) ==
    [columns |-> f.columns,
     rows |-> [i \in DOMAIN f.rows |-> Restrict(f.rows[i], f.columns)]]

\* pd.read_excel and pd.to_datetime inside the try block: a missing file, a
\* sheet without a Date column or an unparseable Date column raises.
LoadData ==
    /\ phase = "start"
    /\ IF file.exists /\ "Date" \in file.columns /\ file.date_parseable
       THEN /\ purchase_data' = ReadExcel(file)
            /\ phase' = "loaded"
       ELSE /\ phase' = "failed"
            /\ UNCHANGED purchase_data
    /\ UNCHANGED <<file, layout, session, response, probe>>

\* app.layout = ...: purchase_data['Price'] and groupby("Product") raise
\* KeyError on a table without the column; nothing reads ERP.
BuildLayout ==
    /\ phase = "loaded"
    /\ IF {"Price", "Product"} \subseteq purchase_data.columns
       THEN /\ layout' = LayoutOf(purchase_data.rows)
            /\ phase' = "built"
       ELSE /\ phase' = "failed"
            /\ UNCHANGED layout
    /\ UNCHANGED <<file, purchase_data, session, response, probe>>

\* app.run_server(debug=True)
RunServer ==
    /\ phase = "built"
    /\ phase' = "serving"
    /\ UNCHANGED <<file, purchase_data, layout, session, response, probe>>

-----------------------------------------------------------------------------
(* Serving: the controls of one browser session                             *)

\* What Dash puts into an output: the returned component, or nothing new when
\* the callback raised (the request fails and the page keeps what it shows).
Deliver(current, result) == IF result.kind = "raise" THEN current ELSE result

Invocation(callback, args, result) ==
    [callback |-> callback, args |-> args, result |-> result, age |-> 0]

\* History only: count (up to two) the invocations made since the kept one.
Aged(p) == IF p.callback = "" \/ p.age >= 2 THEN p ELSE [p EXCEPT !.age = @ + 1]

\* Input("days-dropdown", "value") -> Output("daily-revenue-chart", "figure")
SelectDays(v) ==
    /\ phase = "serving"
    /\ days_dropdown' = v
    /\ daily_revenue_chart' = Deliver(daily_revenue_chart, update_daily_chart(v))
    /\ response' = Invocation("update_daily_chart", <<v>>, update_daily_chart(v))
    /\ UNCHANGED <<phase, file, purchase_data, layout, product_days_dropdown,
                   product_sales_chart, erp_input, n_clicks, enquiry_output,
                   id_at_click, probe>>

\* Input("product-days-dropdown", "value") -> Output("product-sales-chart", "figure")
SelectProductDays(v) ==
    /\ phase = "serving"
    /\ product_days_dropdown' = v
    /\ product_sales_chart' = Deliver(product_sales_chart, update_product_pie_chart(v))
    /\ response' = Invocation("update_product_pie_chart", <<v>>, update_product_pie_chart(v))
    /\ UNCHANGED <<phase, file, purchase_data, layout, days_dropdown,
                   daily_revenue_chart, erp_input, n_clicks, enquiry_output,
                   id_at_click, probe>>

\* Variant: the field wired as an Input, so that typing re-runs the lookup.
EditIdentifierAsInput(v) ==
    /\ phase = "serving"
    /\ erp_input' = v
    /\ enquiry_output' = Deliver(enquiry_output, show_user_purchases(n_clicks, v))
    /\ response' = Invocation("show_user_purchases", <<n_clicks, v>>,
                              show_user_purchases(n_clicks, v))
    /\ UNCHANGED <<phase, file, purchase_data, layout, days_dropdown,
                   daily_revenue_chart, product_days_dropdown, product_sales_chart,
                   n_clicks, id_at_click, probe>>

\* State("erp-input", "value"): typing into the field triggers no callback.
EditIdentifier(v) ==
    /\ phase = "serving"
    /\ erp_input' = v
    /\ UNCHANGED <<phase, file, purchase_data, layout, days_dropdown,
                   daily_revenue_chart, product_days_dropdown, product_sales_chart,
                   n_clicks, enquiry_output, response, id_at_click, probe>>

\* The callback Dash fires once when the page loads, before any click.
InitialEnquiry ==
    /\ phase = "serving"
    /\ n_clicks = 0
    /\ enquiry_output = NoChildren
    /\ enquiry_output' = Deliver(enquiry_output, show_user_purchases(n_clicks, erp_input))
    /\ response' = Invocation("show_user_purchases", <<n_clicks, erp_input>>,
                              show_user_purchases(n_clicks, erp_input))
    /\ UNCHANGED <<phase, file, purchase_data, layout, days_dropdown,
                   daily_revenue_chart, product_days_dropdown, product_sales_chart,
                   erp_input, n_clicks, id_at_click, probe>>

\* Input("submit-button", "n_clicks") -> Output("enquiry-output", "children")
Click ==
    /\ phase = "serving"
    /\ n_clicks < MaxClicks
    /\ n_clicks' = n_clicks + 1
    /\ id_at_click' = erp_input
    /\ enquiry_output' = Deliver(enquiry_output, show_user_purchases(n_clicks + 1, erp_input))
    /\ response' = Invocation("show_user_purchases", <<n_clicks + 1, erp_input>>,
                              show_user_purchases(n_clicks + 1, erp_input))
    /\ UNCHANGED <<phase, file, purchase_data, layout, days_dropdown,
                   daily_revenue_chart, product_days_dropdown, product_sales_chart,
                   erp_input, probe>>

-----------------------------------------------------------------------------
(* Serving: requests of other sessions, which leave this session's page     *)
(* alone                                                                    *)

RequestDailyChart(v) ==
    /\ phase = "serving"
    /\ response' = Invocation("update_daily_chart", <<v>>, update_daily_chart(v))
    /\ probe' = Aged(probe)
    /\ UNCHANGED <<phase, file, purchase_data, layout, session>>

RequestProductPieChart(v) ==
    /\ phase = "serving"
    /\ response' = Invocation("update_product_pie_chart", <<v>>, update_product_pie_chart(v))
    /\ probe' = Aged(probe)
    /\ UNCHANGED <<phase, file, purchase_data, layout, session>>

\* Variant: the ERP column converted to text in place before the comparison.
RequestUserPurchasesInPlace(clicks, erp_id) ==
    /\ phase = "serving"
    /\ response' = Invocation("show_user_purchases", <<clicks, erp_id>>,
                              show_user_purchases(clicks, erp_id))
    /\ probe' = Aged(probe)
    /\ purchase_data' =
           IF clicks > 0 /\ StrTruthy(erp_id)
           THEN [purchase_data EXCEPT !.rows =
                    [i \in DOMAIN @ |-> [@[i] EXCEPT !.ERP = StrCell(CellAsStr(@))]]]
           ELSE purchase_data
    /\ UNCHANGED <<phase, file, layout, session>>

RequestUserPurchases(clicks, erp_id) ==
    /\ phase = "serving"
    /\ response' = Invocation("show_user_purchases", <<clicks, erp_id>>,
                              show_user_purchases(clicks, erp_id))
    /\ probe' = Aged(probe)
    /\ UNCHANGED <<phase, file, purchase_data, layout, session>>

\* History only: keep the latest invocation for a later comparison.
Remember ==
    /\ phase = "serving"
    /\ probe.callback = ""
    /\ response.callback # ""
    /\ probe' = response
    /\ UNCHANGED <<phase, file, purchase_data, layout, session, response>>

-----------------------------------------------------------------------------
(* Inputs                                                                   *)

\* The cleared value, the option values of the two dropdowns (0, 1, 7, 30, 365).
DayArgs == {None, Some(0), Some(1), Some(7), Some(30), Some(365)}
Identifiers == {None, Some(""), Some("1"), Some("E1"), Some("E3")}

Tables(RowSet) == UNION {[1..n -> RowSet] : n \in 0..MaxRows}

ChartRows ==
    [Date : {1, 2, 32}, Product : {"Latte", "Mocha"}, Price : {2, 5},
     ERP : {IntCell(1)}]

EnquiryRows ==
    [Date : {1}, Product : {"Latte", "Mocha"}, Price : {0, 5},
     ERP : {IntCell(1), StrCell("1"), StrCell("E1")}]

SampleRows ==
    << [Date |-> 1, Product |-> "Latte", Price |-> 150, ERP |-> StrCell("E1")],
       [Date |-> 2, Product |-> "Latte", Price |-> 200, ERP |-> StrCell("E1")],
       [Date |-> 2, Product |-> "Mocha", Price |-> 100, ERP |-> IntCell(1)] >>

\* A sheet in which the Product cell of the first row is blank.
BlankProductRows ==
    << [Date |-> 1, Product |-> NaN, Price |-> 5, ERP |-> IntCell(1)],
       [Date |-> 2, Product |-> "Latte", Price |-> 200, ERP |-> StrCell("E1")] >>

RequestRows ==
    {SampleRows[i] : i \in DOMAIN SampleRows}
        \cup {[Date |-> 32, Product |-> "Mocha", Price |-> 0, ERP |-> StrCell("1")]}

Files ==
    [exists : BOOLEAN, columns : SUBSET AllColumns, date_parseable : BOOLEAN,
     rows : {SampleRows, BlankProductRows}]

\* The process before the try block runs.
StartInit ==
    /\ phase = "start"
    /\ file \in Files
    /\ purchase_data = NoData
    /\ layout = NoLayout
    /\ SessionInit
    /\ response = NoResponse
    /\ probe = NoResponse

\* The process serving a table loaded from a sheet that has the four columns.
ServingInit(RowSet) ==
    /\ phase = "serving"
    /\ \E rows \in Tables(RowSet) :
          /\ file = [exists |-> TRUE, columns |-> AllColumns, date_parseable |-> TRUE,
                     rows |-> rows]
          /\ purchase_data = ReadExcel(file)
          /\ layout = LayoutOf(rows)
    /\ SessionInit
    /\ response = NoResponse
    /\ probe = NoResponse

SessionNext ==
    \/ \E v \in DayArgs : SelectDays(v)
    \/ \E v \in DayArgs : SelectProductDays(v)
    \/ \E v \in Identifiers : EditIdentifier(v)
    \/ InitialEnquiry
    \/ Click

\* Start-up followed by one session.
StartupNext ==
    \/ LoadData
    \/ BuildLayout
    \/ RunServer
    \/ SessionNext

SpecStartup == StartInit /\ [][StartupNext]_vars

\* The two day-count controls over every small table.
ChartsInit == ServingInit(ChartRows)

ChartsNext ==
    \/ \E v \in DayArgs : SelectDays(v)
    \/ \E v \in DayArgs : SelectProductDays(v)

SpecCharts == ChartsInit /\ [][ChartsNext]_vars

\* The Enquiry tab over every small table.
EnquiryInit == ServingInit(EnquiryRows)

EnquiryNext ==
    \/ \E v \in Identifiers : EditIdentifier(v)
    \/ InitialEnquiry
    \/ Click
    \/ Remember

SpecEnquiry == EnquiryInit /\ [][EnquiryNext]_vars

\* Callback requests with any arguments in any order.
RequestsInit == ServingInit(RequestRows)

RequestsNext ==
    \/ \E v \in DayArgs : RequestDailyChart(v)
    \/ \E v \in DayArgs : RequestProductPieChart(v)
    \/ \E c \in 0..1, e \in Identifiers : RequestUserPurchases(c, e)
    \/ Remember

SpecRequests == RequestsInit /\ [][RequestsNext]_vars

-----------------------------------------------------------------------------
(* Properties                                                               *)

RECURSIVE PriceOver(_, _)
\* Sum of Price over the rows at the indices S.
PriceOver(rows, S) ==
    IF S = {} THEN 0
    ELSE LET i == CHOOSE j \in S : TRUE
         IN  rows[i].Price + PriceOver(rows, S \ {i})

RECURSIVE GroupTotal(_)
\* Sum of the sums of an aggregation result.
GroupTotal(data) ==
    IF data = <<>> THEN 0 ELSE Head(data).Price + GroupTotal(Tail(data))

\* Indices of the rows whose Date lies in [max(Date) - N, max(Date)].
InWindow(rows, N) ==
    {i \in DOMAIN rows :
        \E m \in DOMAIN rows :
            /\ \A k \in DOMAIN rows : rows[k].Date <= rows[m].Date
            /\ rows[m].Date - N <= rows[i].Date
            /\ rows[i].Date <= rows[m].Date}

\* data holds exactly one (key, sum of Price) pair per distinct key among the
\* rows at the indices S.
IsGroupSum(data, rows, S, column) ==
    /\ {data[i].key : i \in DOMAIN data} = {rows[i][column] : i \in S}
    /\ Len(data) = Cardinality({rows[i][column] : i \in S})
    /\ \A i \in DOMAIN data :
          data[i].Price = PriceOver(rows, {j \in S : rows[j][column] = data[i].key})

RendersNothing(c) == c.kind \in {"no_children", "empty_string"}

\* C1: with N > 0 selected, the daily chart aggregates exactly the rows dated
\* within [max(Date) - N, max(Date)] of the table, both bounds included, one
\* (Date, sum of Price) pair per distinct Date.
C1_DailyWindowInclusive ==
    (days_dropdown # None /\ days_dropdown[1] > 0 /\ daily_revenue_chart # NoFigure) =>
        /\ daily_revenue_chart.kind = "line"
        /\ IsGroupSum(daily_revenue_chart.data, purchase_data.rows,
                      InWindow(purchase_data.rows, days_dropdown[1]), "Date")

\* A row exactly 30 days before the latest row is charted next to it.
C1_Witness ==
    /\ days_dropdown = Some(30)
    /\ Len(daily_revenue_chart.data) = 2
    /\ daily_revenue_chart.data[1].key = 2
    /\ daily_revenue_chart.data[2].key = 32

\* C2: with 0 selected the pie chart is unfiltered and its per-Product sums
\* are those of the Overview chart; with a non-zero N it groups the rows
\* dated within [max(Date) - N, max(Date)].
C2_ZeroMeansAllRows ==
    (product_days_dropdown # None /\ product_sales_chart # NoFigure) =>
        /\ product_sales_chart.kind = "pie"
        /\ IF product_days_dropdown[1] = 0
           THEN /\ product_sales_chart.data = layout.product_revenue_chart.data
                /\ IsGroupSum(product_sales_chart.data, purchase_data.rows,
                              DOMAIN purchase_data.rows, "Product")
           ELSE IsGroupSum(product_sales_chart.data, purchase_data.rows,
                           InWindow(purchase_data.rows, product_days_dropdown[1]), "Product")

\* All-time pie chart over two rows of different days and products.
C2_Witness ==
    /\ product_days_dropdown = Some(0)
    /\ product_sales_chart.kind = "pie"
    /\ Len(product_sales_chart.data) = 2
    /\ Len(purchase_data.rows) = 2
    /\ purchase_data.rows[1].Date # purchase_data.rows[2].Date

\* C3: a non-empty identifier submitted with a click is "found" exactly when
\* some row's ERP, as text, equals it, with the total of exactly those rows
\* and their per-Product sums; otherwise it is "No purchases found".
C3_FoundIffMatch ==
    (n_clicks > 0 /\ StrTruthy(id_at_click)) =>
        LET rows == purchase_data.rows
            M == {i \in DOMAIN rows : CellAsStr(rows[i].ERP) = id_at_click[1]}
        IN  IF M # {}
            THEN /\ enquiry_output.kind = "found"
                 /\ enquiry_output.total = PriceOver(rows, M)
                 /\ IsGroupSum(enquiry_output.data, rows, M, "Product")
            ELSE enquiry_output.kind = "not_found"

\* A lookup of "1" matching a numeric cell whose rows sum to zero.
C3_Witness ==
    /\ n_clicks > 0
    /\ id_at_click = Some("1")
    /\ enquiry_output.kind = "found"
    /\ enquiry_output.total = 0
    /\ \E i \in DOMAIN purchase_data.rows : purchase_data.rows[i].ERP = IntCell(1)

\* C4: a cleared day-count control makes its callback return an empty chart
\* without raising, for the Daily Trends and the Product Insights control.
C4_NoSelectionEmptyChart ==
    /\ (days_dropdown = None /\ response.callback = "update_daily_chart") =>
           (response.result = EmptyFigure /\ daily_revenue_chart = EmptyFigure)
    /\ (product_days_dropdown = None /\ response.callback = "update_product_pie_chart") =>
           (response.result = EmptyFigure /\ product_sales_chart = EmptyFigure)

\* C5: the serving state is reached only with a table that has the columns
\* Date, Product, Price and ERP.
C5_ServingHasAllColumns ==
    phase = "serving" => AllColumns \subseteq purchase_data.columns

\* C6: the Enquiry output renders nothing when there was no click or the
\* submitted identifier was empty or absent, whatever it showed before, and
\* otherwise shows the found result or the not-found notice.
C6_EnquiryThreeStates ==
    IF n_clicks = 0 \/ ~StrTruthy(id_at_click)
    THEN RendersNothing(enquiry_output)
    ELSE enquiry_output.kind \in {"found", "not_found"}

\* A found result was shown, then the trigger was pressed on an empty field.
C6_Witness ==
    /\ probe.callback = "show_user_purchases"
    /\ probe.result.kind = "found"
    /\ n_clicks = 2
    /\ id_at_click = Some("")
    /\ enquiry_output = EmptyString

\* C7: once the layout is built, the per-Product sums of the Overview chart and of the all-time pie
\* chart, and the per-month sums of the Monthly Trends chart, each add up to
\* the Total Revenue scalar.
C7_GroupSumsConserveTotal ==
    phase \in {"built", "serving"} =>
        /\ GroupTotal(layout.product_revenue_chart.data) = layout.total_revenue
        /\ GroupTotal(layout.monthly_revenue_chart.data) = layout.total_revenue
        /\ (product_days_dropdown = Some(0) /\ product_sales_chart # NoFigure) =>
               GroupTotal(product_sales_chart.data) = layout.total_revenue
        /\ layout.total_revenue = PriceOver(purchase_data.rows, DOMAIN purchase_data.rows)

\* C8: whatever callbacks ran, purchase_data has the rows and columns it was
\* loaded with, the ERP cells keeping their original type.
C8_TableNeverMutated ==
    phase = "serving" =>
        purchase_data = ReadExcel(file)

\* A lookup matched a numeric ERP cell by its text and other callbacks ran since.
C8_Witness ==
    /\ probe.callback = "show_user_purchases"
    /\ probe.result.kind = "found"
    /\ probe.args = <<1, Some("1")>>
    /\ probe.age = 2
    /\ response.callback = "update_daily_chart"
    /\ \E i \in DOMAIN purchase_data.rows : purchase_data.rows[i].ERP = IntCell(1)

\* C9: an invocation with the arguments of an earlier invocation of the same
\* callback returns what that one returned, whatever ran in between.
C9_SameArgumentsSameResult ==
    (probe.callback = response.callback /\ probe.args = response.args) =>
        probe.result = response.result

\* The same daily request repeated after two other invocations.
C9_Witness ==
    /\ probe.callback = "update_daily_chart"
    /\ response.callback = "update_daily_chart"
    /\ probe.args = response.args
    /\ probe.age = 2
    /\ Len(response.result.data) = 2

\* C10: the Enquiry output is the result for the identifier that was in the
\* field at the most recent click, or nothing if there was no click; editing
\* the field alone does not change it.
C10_OutputFollowsLastClick ==
    IF n_clicks = 0
    THEN RendersNothing(enquiry_output)
    ELSE /\ enquiry_output = show_user_purchases(n_clicks, id_at_click)
         /\ response.args = <<n_clicks, id_at_click>>

\* A found result stays on the page while the field already holds another,
\* unknown identifier.
C10_Witness ==
    /\ n_clicks = 1
    /\ id_at_click = Some("1")
    /\ erp_input = Some("E3")
    /\ enquiry_output.kind = "found"

====
